---- MODULE Spec2Model ----
(***************************************************************************)
(* launcher.py of Movie-Consolidator: one run of main().                   *)
(*                                                                         *)
(* A path is the sequence of its components ("d/b" is <<"d","b">>, the     *)
(* empty string is <<>>), so that os.path.dirname and os.makedirs are      *)
(* computed on the path's structure.  A command-line argument is a path    *)
(* too: the flag "--gui" is <<"--gui">>.                                   *)
(*                                                                         *)
(* The external collaborators (load_settings, load_hardware_config,        *)
(* process_videos, process_video, launch_gradio_interface) are opaque:     *)
(* each call either returns or raises an Exception, chosen                 *)
(* nondeterministically.  log_event and cleanup_work_directory return.     *)
(* The run starts at the call of main(): the imports of the module have    *)
(* succeeded.  os.makedirs fails only for the empty path.                  *)
(***************************************************************************)
EXTENDS Naturals, Sequences, FiniteSets

VARIABLES
    pc,               \* position of the run inside main()
    fs,               \* the paths os.path.exists answers True for
    argv,             \* sys.argv[1:], read at dispatch
    hardware_config,  \* self.hardware_config: ordered (key, value) pairs
    input_path,       \* first parameter of the processing method entered
    output_path,      \* second parameter of the processing method entered
    exc,              \* the exception in flight, or the last one caught
    log,              \* log_event calls, in order
    out,              \* print calls, in order
    calls,            \* delegate calls, in order, each with its outcome
    cleanups,         \* number of cleanup_work_directory calls
    exitCode,         \* the status the process exits with
    trace             \* the steps of main() executed so far

vars == <<pc, fs, argv, hardware_config, input_path, output_path, exc, log,
          out, calls, cleanups, exitCode, trace>>

-----------------------------------------------------------------------------
(* Bounds of the model.                                                    *)

MaxArgs == 4

(* Command-line tokens and the paths they name.                            *)
GuiFlag  == <<"--gui">>
FileFlag == <<"--file">>
UserPaths == {<<"a">>, <<"d">>, <<"d", "b">>}
Tokens == {GuiFlag, FileFlag, <<"a">>, <<"d", "b">>}

RECURSIVE SeqsUpTo(_, _)
SeqsUpTo(S, n) ==
    IF n = 0 THEN {<<>>}
    ELSE LET shorter == SeqsUpTo(S, n - 1)
         IN  shorter \cup {Append(s, x) : s \in {t \in shorter : Len(t) = n - 1}, x \in S}

Invocations == SeqsUpTo(Tokens, MaxArgs)

-----------------------------------------------------------------------------
(* The filesystem, as os.path.exists and os.makedirs see it.               *)

RequiredDirs  == << <<"data">>, <<"input">>, <<"output">>, <<"work">> >>
RequiredFiles == << <<"data", "temporary.py">>,
                    <<"data", "persistent.json">>,
                    <<"data", "hardware.txt">> >>

Range(s) == {s[i] : i \in DOMAIN s}

AllPaths == Range(RequiredDirs) \cup Range(RequiredFiles) \cup UserPaths

(* os.path.dirname: the path without its last component; "" stays "".      *)
Dirname(p) == IF Len(p) = 0 THEN <<>> ELSE SubSeq(p, 1, Len(p) - 1)

(* The ancestors of p and p itself, the empty path excluded.               *)
Prefixes(p) == {SubSeq(p, 1, n) : n \in 1..Len(p)}

(* A filesystem holds the parent of everything it holds.                   *)
ParentClosed(f) == \A p \in f : Prefixes(p) \subseteq f

(* os.path.exists(p): False for the empty string.                          *)
Exists(p, f) == p # <<>> /\ p \in f

(* os.makedirs(p) raises FileNotFoundError for the empty string.           *)
MakedirsRaises(p) == p = <<>>

(* os.makedirs(p): creates p and every missing ancestor.                   *)
Makedirs(p, f) == f \cup Prefixes(p)

-----------------------------------------------------------------------------
(* Exceptions, log entries, printed lines, delegate calls.                 *)

Exc(type, msg, path) == [type |-> type, msg |-> msg, path |-> path]
NoExc == Exc("None", "", <<>>)

LogEntry(event, e, a, b) == [event |-> event, exc |-> e, a |-> a, b |-> b]

Line(text) == [text |-> text, key |-> "", value |-> FALSE]
KeyValueLine(k, v) == [text |-> "key: value", key |-> k, value |-> v]

Call(fn, a, b, raised) == [fn |-> fn, a |-> a, b |-> b, raised |-> raised]

-----------------------------------------------------------------------------
(* The hardware mapping: a dict, kept as its items in insertion order.     *)

HwKeys == {"OpenCL", "Avx2"}
HwItems == [key : HwKeys, value : BOOLEAN]

DistinctKeys(hc) == \A i, j \in DOMAIN hc : hc[i].key = hc[j].key => i = j

(* What load_hardware_config may return: any mapping over the two flags,   *)
(* a flag possibly missing, in any insertion order.                        *)
HardwareConfigs == {hc \in SeqsUpTo(HwItems, Cardinality(HwKeys)) : DistinctKeys(hc)}

HasKey(hc, k) == \E i \in DOMAIN hc : hc[i].key = k

(* hc[k], for a key the mapping has.                                       *)
Get(hc, k) == hc[CHOOSE i \in DOMAIN hc : hc[i].key = k].value

ItemLines(hc) == [i \in DOMAIN hc |-> KeyValueLine(hc[i].key, hc[i].value)]

(* The key whose lookup raises KeyError in the if/elif chain, "" if none:  *)
(* "OpenCL" is read first, "Avx2" only when the OpenCL flag is false.      *)
MissingKey(hc) ==
    IF ~HasKey(hc, "OpenCL") THEN "OpenCL"
    ELSE IF Get(hc, "OpenCL") THEN ""
    ELSE IF ~HasKey(hc, "Avx2") THEN "Avx2"
    ELSE ""

(* TierMessage with the two flags tested in the other order (Avx2 read     *)
(* with a default of false).                                               *)
TierMessageAvx2First(hc) ==
    IF HasKey(hc, "Avx2") /\ Get(hc, "Avx2") THEN "Using AVX2 for CPU acceleration"
    ELSE IF Get(hc, "OpenCL") THEN "Using OpenCL for GPU acceleration"
    ELSE "Using standard CPU processing"

(* The acceleration-tier message, for a mapping whose lookups succeed.     *)
TierMessage(hc) ==
    IF Get(hc, "OpenCL") THEN "Using OpenCL for GPU acceleration"
    ELSE IF Get(hc, "Avx2") THEN "Using AVX2 for CPU acceleration"
    ELSE "Using standard CPU processing"

TierMessages == {"Using OpenCL for GPU acceleration",
                 "Using AVX2 for CPU acceleration",
                 "Using standard CPU processing"}

-----------------------------------------------------------------------------
(* Dispatch on the shape of the invocation; a is sys.argv[1:].             *)

(* SelectMode with the arity tests made before the test for --gui.         *)
SelectModeArityFirst(a) ==
    IF Len(a) > 0
    THEN IF Len(a) = 2 THEN "process_directory"
         ELSE IF Len(a) = 3 /\ a[1] = FileFlag THEN "process_single_file"
         ELSE IF a[1] = GuiFlag THEN "launch_gradio_interface"
         ELSE "usage"
    ELSE "launch_gradio_interface"

SelectMode(a) ==
    IF Len(a) > 0
    THEN IF a[1] = GuiFlag THEN "launch_gradio_interface"
         ELSE IF Len(a) = 2 THEN "process_directory"
         ELSE IF Len(a) = 3 /\ a[1] = FileFlag THEN "process_single_file"
         ELSE "usage"
    ELSE "launch_gradio_interface"

UsageText == << Line("Usage:"),
                Line("  Launch GUI:"),
                Line("    python launcher.py --gui"),
                Line("  Process directory:"),
                Line("    python launcher.py input_dir output_dir"),
                Line("  Process single file:"),
                Line("    python launcher.py --file input_path output_path") >>

-----------------------------------------------------------------------------
(* The run.                                                                *)

Init ==
    /\ pc = "init"
    /\ fs \in {f \in SUBSET AllPaths : ParentClosed(f)}
    /\ argv = <<>>
    /\ hardware_config = <<>>
    /\ input_path = <<>>
    /\ output_path = <<>>
    /\ exc = NoExc
    /\ log = <<>>
    /\ out = <<>>
    /\ calls = <<>>
    /\ cleanups = 0
    /\ exitCode = 0
    /\ trace = <<>>

(* MovieConsolidator.__init__ up to the call of validate_environment.      *)
InitConsolidator ==
    /\ pc = "init"
    /\ trace' = Append(trace, "init")
    /\ \/ /\ exc' = Exc("Exception", "load_settings", <<>>)
          /\ pc' = "main_except"
          /\ UNCHANGED hardware_config
       \/ /\ exc' = Exc("Exception", "load_hardware_config", <<>>)
          /\ pc' = "main_except"
          /\ UNCHANGED hardware_config
       \/ /\ \E hc \in HardwareConfigs : hardware_config' = hc
          /\ pc' = "validate_environment"
          /\ UNCHANGED exc
    /\ UNCHANGED <<fs, argv, input_path, output_path, log, out, calls,
                   cleanups, exitCode>>

(* CreateDirs with the loop ending one directory early.                    *)
RECURSIVE CreateDirsSkipLast(_, _)
CreateDirsSkipLast(i, st) ==
    IF i >= Len(RequiredDirs) THEN st
    ELSE LET d == RequiredDirs[i]
         IN  IF ~Exists(d, st.fs)
             THEN CreateDirsSkipLast(i + 1,
                    [fs  |-> Makedirs(d, st.fs),
                     log |-> Append(st.log,
                               LogEntry("Created missing directory", NoExc, d, <<>>))])
             ELSE CreateDirsSkipLast(i + 1, st)

(* The loop over required_dirs, from the i-th directory on.                *)
RECURSIVE CreateDirs(_, _)
CreateDirs(i, st) ==
    IF i > Len(RequiredDirs) THEN st
    ELSE LET d == RequiredDirs[i]
         IN  IF ~Exists(d, st.fs)
             THEN CreateDirs(i + 1,
                    [fs  |-> Makedirs(d, st.fs),
                     log |-> Append(st.log,
                               LogEntry("Created missing directory", NoExc, d, <<>>))])
             ELSE CreateDirs(i + 1, st)

(* MissingFiles with the loop left after its first iteration.              *)
MissingFilesFirstOnly(f) ==
    SelectSeq(SubSeq(RequiredFiles, 1, 1), LAMBDA p : ~Exists(p, f))

(* The required files that are absent, in the order they are looked up.    *)
MissingFiles(f) == SelectSeq(RequiredFiles, LAMBDA p : ~Exists(p, f))

(* ValidateEnvironment whose handler logs the failure and returns, the     *)
(* sys.exit(1) left out.                                                   *)
ValidateEnvironmentNoExit ==
    /\ pc = "validate_environment"
    /\ trace' = Append(trace, "validate_environment")
    /\ LET st == CreateDirs(1, [fs |-> fs, log |-> log])
           missing == MissingFiles(st.fs)
       IN  /\ fs' = st.fs
           /\ IF missing = <<>>
              THEN log' = st.log
              ELSE log' = st.log \o
                     << LogEntry("Error: Required file missing", NoExc,
                                 Head(missing), <<>>),
                        LogEntry("Environment validation failed",
                                 Exc("FileNotFoundError", "Required file missing",
                                     Head(missing)),
                                 <<>>, <<>>) >>
    /\ pc' = "print_hardware_info"
    /\ UNCHANGED <<argv, hardware_config, input_path, output_path, exc, out,
                   calls, cleanups, exitCode>>

ValidateEnvironment ==
    /\ pc = "validate_environment"
    /\ trace' = Append(trace, "validate_environment")
    /\ LET st == CreateDirs(1, [fs |-> fs, log |-> log])
           missing == MissingFiles(st.fs)
       IN  /\ fs' = st.fs
           /\ IF missing = <<>>
              THEN /\ log' = st.log
                   /\ pc' = "print_hardware_info"
                   /\ UNCHANGED <<exc, exitCode>>
              ELSE LET e == Exc("FileNotFoundError", "Required file missing",
                                Head(missing))
                   IN  /\ log' = st.log \o
                            << LogEntry("Error: Required file missing", NoExc,
                                        Head(missing), <<>>),
                               LogEntry("Environment validation failed", e,
                                        <<>>, <<>>) >>
                       /\ exc' = Exc("SystemExit", "1", <<>>)
                       /\ exitCode' = 1
                       /\ pc' = "finally"
    /\ UNCHANGED <<argv, hardware_config, input_path, output_path, out, calls,
                   cleanups>>

PrintHardwareInfo ==
    /\ pc = "print_hardware_info"
    /\ trace' = Append(trace, "print_hardware_info")
    /\ LET head == <<Line("Hardware Configuration:")>> \o ItemLines(hardware_config)
       IN  IF MissingKey(hardware_config) # ""
           THEN /\ out' = out \o head
                /\ exc' = Exc("KeyError", MissingKey(hardware_config), <<>>)
                /\ pc' = "main_except"
           ELSE /\ out' = out \o head \o <<Line(TierMessage(hardware_config))>>
                /\ pc' = "load_settings"
                /\ UNCHANGED exc
    /\ UNCHANGED <<fs, argv, hardware_config, input_path, output_path, log,
                   calls, cleanups, exitCode>>

LoadSettings ==
    /\ pc = "load_settings"
    /\ trace' = Append(trace, "load_settings")
    /\ \/ /\ exc' = Exc("Exception", "load_settings", <<>>)
          /\ pc' = "main_except"
       \/ /\ pc' = "dispatch"
          /\ UNCHANGED exc
    /\ UNCHANGED <<fs, argv, hardware_config, input_path, output_path, log,
                   out, calls, cleanups, exitCode>>

Dispatch ==
    /\ pc = "dispatch"
    /\ trace' = Append(trace, "dispatch")
    /\ \E a \in Invocations :
         /\ argv' = a
         /\ pc' = SelectMode(a)
         /\ IF SelectMode(a) = "process_directory"
            THEN input_path' = a[1] /\ output_path' = a[2]
            ELSE IF SelectMode(a) = "process_single_file"
            THEN input_path' = a[2] /\ output_path' = a[3]
            ELSE UNCHANGED <<input_path, output_path>>
    /\ UNCHANGED <<fs, hardware_config, exc, log, out, calls, cleanups,
                   exitCode>>

PrintUsage ==
    /\ pc = "usage"
    /\ trace' = Append(trace, "usage")
    /\ out' = out \o UsageText
    /\ pc' = "finally"
    /\ UNCHANGED <<fs, argv, hardware_config, input_path, output_path, exc,
                   log, calls, cleanups, exitCode>>

(* LaunchGradioInterface followed by the usage text: the branches of       *)
(* main tested by separate if statements, the last with the else.          *)
LaunchGradioInterfaceFallThrough ==
    /\ pc = "launch_gradio_interface"
    /\ trace' = Append(trace, "launch_gradio_interface")
    /\ \E raised \in BOOLEAN :
         /\ calls' = Append(calls, Call("launch_gradio_interface", <<>>, <<>>, raised))
         /\ IF raised
            THEN /\ exc' = Exc("Exception", "launch_gradio_interface", <<>>)
                 /\ pc' = "main_except"
            ELSE /\ pc' = IF Len(argv) > 0 THEN "usage" ELSE "finally"
                 /\ UNCHANGED exc
    /\ UNCHANGED <<fs, argv, hardware_config, input_path, output_path, log,
                   out, cleanups, exitCode>>

LaunchGradioInterface ==
    /\ pc = "launch_gradio_interface"
    /\ trace' = Append(trace, "launch_gradio_interface")
    /\ \E raised \in BOOLEAN :
         /\ calls' = Append(calls, Call("launch_gradio_interface", <<>>, <<>>, raised))
         /\ IF raised
            THEN /\ exc' = Exc("Exception", "launch_gradio_interface", <<>>)
                 /\ pc' = "main_except"
            ELSE /\ pc' = "finally"
                 /\ UNCHANGED exc
    /\ UNCHANGED <<fs, argv, hardware_config, input_path, output_path, log,
                   out, cleanups, exitCode>>

(* ProcessDirectory clearing the work directory before the batch starts.   *)
ProcessDirectoryCleansFirst ==
    /\ pc = "process_directory"
    /\ trace' = Append(trace, "process_directory")
    /\ IF ~Exists(input_path, fs)
       THEN /\ exc' = Exc("FileNotFoundError", "Input directory not found", input_path)
            /\ pc' = "process_directory_except"
            /\ UNCHANGED <<fs, log, cleanups>>
       ELSE IF ~Exists(output_path, fs) /\ MakedirsRaises(output_path)
       THEN /\ exc' = Exc("FileNotFoundError", "makedirs", output_path)
            /\ pc' = "process_directory_except"
            /\ UNCHANGED <<fs, log, cleanups>>
       ELSE /\ fs' = IF ~Exists(output_path, fs) THEN Makedirs(output_path, fs) ELSE fs
            /\ log' = Append(log, LogEntry("Starting batch processing", NoExc,
                                           input_path, output_path))
            /\ cleanups' = cleanups + 1
            /\ pc' = "process_videos"
            /\ UNCHANGED exc
    /\ UNCHANGED <<argv, hardware_config, input_path, output_path, out, calls,
                   exitCode>>

(* ProcessDirectory without the test that the input directory exists.     *)
ProcessDirectoryNoCheck ==
    /\ pc = "process_directory"
    /\ trace' = Append(trace, "process_directory")
    /\ IF ~Exists(output_path, fs) /\ MakedirsRaises(output_path)
       THEN /\ exc' = Exc("FileNotFoundError", "makedirs", output_path)
            /\ pc' = "process_directory_except"
            /\ UNCHANGED <<fs, log>>
       ELSE /\ fs' = IF ~Exists(output_path, fs) THEN Makedirs(output_path, fs) ELSE fs
            /\ log' = Append(log, LogEntry("Starting batch processing", NoExc,
                                           input_path, output_path))
            /\ pc' = "process_videos"
            /\ UNCHANGED exc
    /\ UNCHANGED <<argv, hardware_config, input_path, output_path, out, calls,
                   cleanups, exitCode>>

(* process_directory, the try body up to the call of process_videos.       *)
ProcessDirectory ==
    /\ pc = "process_directory"
    /\ trace' = Append(trace, "process_directory")
    /\ IF ~Exists(input_path, fs)
       THEN /\ exc' = Exc("FileNotFoundError", "Input directory not found", input_path)
            /\ pc' = "process_directory_except"
            /\ UNCHANGED <<fs, log>>
       ELSE IF ~Exists(output_path, fs) /\ MakedirsRaises(output_path)
       THEN /\ exc' = Exc("FileNotFoundError", "makedirs", output_path)
            /\ pc' = "process_directory_except"
            /\ UNCHANGED <<fs, log>>
       ELSE /\ fs' = IF ~Exists(output_path, fs) THEN Makedirs(output_path, fs) ELSE fs
            /\ log' = Append(log, LogEntry("Starting batch processing", NoExc,
                                           input_path, output_path))
            /\ pc' = "process_videos"
            /\ UNCHANGED exc
    /\ UNCHANGED <<argv, hardware_config, input_path, output_path, out, calls,
                   cleanups, exitCode>>

(* The call process_videos(input_dir, output_dir).                         *)
ProcessVideos ==
    /\ pc = "process_videos"
    /\ trace' = Append(trace, "process_videos")
    /\ \E raised \in BOOLEAN :
         /\ calls' = Append(calls, Call("process_videos", input_path, output_path, raised))
         /\ IF raised
            THEN /\ exc' = Exc("Exception", "process_videos", <<>>)
                 /\ pc' = "process_directory_except"
            ELSE /\ pc' = "finally"
                 /\ UNCHANGED exc
    /\ UNCHANGED <<fs, argv, hardware_config, input_path, output_path, log,
                   out, cleanups, exitCode>>

(* ProcessDirectoryExcept without its call of cleanup_work_directory.      *)
ProcessDirectoryExceptNoCleanup ==
    /\ pc = "process_directory_except"
    /\ trace' = Append(trace, "process_directory_except")
    /\ log' = Append(log, LogEntry("Directory processing failed", exc, <<>>, <<>>))
    /\ pc' = "finally"
    /\ UNCHANGED <<fs, argv, hardware_config, input_path, output_path, exc,
                   out, calls, cleanups, exitCode>>

(* The handler of process_directory.                                       *)
ProcessDirectoryExcept ==
    /\ pc = "process_directory_except"
    /\ trace' = Append(trace, "process_directory_except")
    /\ log' = Append(log, LogEntry("Directory processing failed", exc, <<>>, <<>>))
    /\ cleanups' = cleanups + 1
    /\ pc' = "finally"
    /\ UNCHANGED <<fs, argv, hardware_config, input_path, output_path, exc,
                   out, calls, exitCode>>

(* ProcessSingleFile with the output directory created before the input   *)
(* file is looked for.                                                     *)
ProcessSingleFileMakedirsFirst ==
    /\ pc = "process_single_file"
    /\ trace' = Append(trace, "process_single_file")
    /\ LET output_dir == Dirname(output_path)
           made == IF ~Exists(output_dir, fs) THEN Makedirs(output_dir, fs) ELSE fs
       IN  IF ~Exists(output_dir, fs) /\ MakedirsRaises(output_dir)
           THEN /\ exc' = Exc("FileNotFoundError", "makedirs", output_dir)
                /\ pc' = "process_single_file_except"
                /\ UNCHANGED <<fs, log>>
           ELSE IF ~Exists(input_path, made)
           THEN /\ fs' = made
                /\ exc' = Exc("FileNotFoundError", "Input file not found", input_path)
                /\ pc' = "process_single_file_except"
                /\ UNCHANGED log
           ELSE /\ fs' = made
                /\ log' = Append(log, LogEntry("Processing single file", NoExc,
                                               input_path, output_path))
                /\ pc' = "process_video"
                /\ UNCHANGED exc
    /\ UNCHANGED <<argv, hardware_config, input_path, output_path, out, calls,
                   cleanups, exitCode>>

(* process_single_file, the try body up to the call of process_video.      *)
ProcessSingleFile ==
    /\ pc = "process_single_file"
    /\ trace' = Append(trace, "process_single_file")
    /\ LET output_dir == Dirname(output_path)
       IN  IF ~Exists(input_path, fs)
           THEN /\ exc' = Exc("FileNotFoundError", "Input file not found", input_path)
                /\ pc' = "process_single_file_except"
                /\ UNCHANGED <<fs, log>>
           ELSE IF ~Exists(output_dir, fs) /\ MakedirsRaises(output_dir)
           THEN /\ exc' = Exc("FileNotFoundError", "makedirs", output_dir)
                /\ pc' = "process_single_file_except"
                /\ UNCHANGED <<fs, log>>
           ELSE /\ fs' = IF ~Exists(output_dir, fs) THEN Makedirs(output_dir, fs) ELSE fs
                /\ log' = Append(log, LogEntry("Processing single file", NoExc,
                                               input_path, output_path))
                /\ pc' = "process_video"
                /\ UNCHANGED exc
    /\ UNCHANGED <<argv, hardware_config, input_path, output_path, out, calls,
                   cleanups, exitCode>>

(* ProcessVideo with the call made outside the try of process_single_file: *)
(* an exception of process_video reaches main's handler.                   *)
ProcessVideoOutsideTry ==
    /\ pc = "process_video"
    /\ trace' = Append(trace, "process_video")
    /\ \E raised \in BOOLEAN :
         /\ calls' = Append(calls, Call("process_video", input_path, output_path, raised))
         /\ IF raised
            THEN /\ exc' = Exc("Exception", "process_video", <<>>)
                 /\ pc' = "main_except"
            ELSE /\ pc' = "finally"
                 /\ UNCHANGED exc
    /\ UNCHANGED <<fs, argv, hardware_config, input_path, output_path, log,
                   out, cleanups, exitCode>>

(* The call process_video(input_path, output_path).                        *)
ProcessVideo ==
    /\ pc = "process_video"
    /\ trace' = Append(trace, "process_video")
    /\ \E raised \in BOOLEAN :
         /\ calls' = Append(calls, Call("process_video", input_path, output_path, raised))
         /\ IF raised
            THEN /\ exc' = Exc("Exception", "process_video", <<>>)
                 /\ pc' = "process_single_file_except"
            ELSE /\ pc' = "finally"
                 /\ UNCHANGED exc
    /\ UNCHANGED <<fs, argv, hardware_config, input_path, output_path, log,
                   out, cleanups, exitCode>>

(* ProcessSingleFileExcept ending in a bare raise: the exception goes on   *)
(* to main's handler.                                                      *)
ProcessSingleFileExceptReraise ==
    /\ pc = "process_single_file_except"
    /\ trace' = Append(trace, "process_single_file_except")
    /\ log' = Append(log, LogEntry("Single file processing failed", exc, <<>>, <<>>))
    /\ cleanups' = cleanups + 1
    /\ pc' = "main_except"
    /\ UNCHANGED <<fs, argv, hardware_config, input_path, output_path, exc,
                   out, calls, exitCode>>

(* The handler of process_single_file.                                     *)
ProcessSingleFileExcept ==
    /\ pc = "process_single_file_except"
    /\ trace' = Append(trace, "process_single_file_except")
    /\ log' = Append(log, LogEntry("Single file processing failed", exc, <<>>, <<>>))
    /\ cleanups' = cleanups + 1
    /\ pc' = "finally"
    /\ UNCHANGED <<fs, argv, hardware_config, input_path, output_path, exc,
                   out, calls, exitCode>>

(* main's handler: except Exception, ending in sys.exit(1).                *)
MainExcept ==
    /\ pc = "main_except"
    /\ trace' = Append(trace, "main_except")
    /\ log' = Append(log, LogEntry("Program execution failed", exc, <<>>, <<>>))
    /\ out' = Append(out, [text |-> "Error: {e}", key |-> exc.msg, value |-> FALSE])
    /\ cleanups' = cleanups + 1
    /\ exitCode' = 1
    /\ exc' = Exc("SystemExit", "1", <<>>)
    /\ pc' = "finally"
    /\ UNCHANGED <<fs, argv, hardware_config, input_path, output_path, calls>>

(* Finally with an empty finally block.                                    *)
FinallyNoCleanup ==
    /\ pc = "finally"
    /\ trace' = Append(trace, "finally")
    /\ pc' = "done"
    /\ UNCHANGED <<fs, argv, hardware_config, input_path, output_path, exc,
                   log, out, calls, cleanups, exitCode>>

(* main's finally block, after which the process exits.                    *)
Finally ==
    /\ pc = "finally"
    /\ trace' = Append(trace, "finally")
    /\ cleanups' = cleanups + 1
    /\ pc' = "done"
    /\ UNCHANGED <<fs, argv, hardware_config, input_path, output_path, exc,
                   log, out, calls, exitCode>>

Next ==
    \/ InitConsolidator
    \/ ValidateEnvironment
    \/ PrintHardwareInfo
    \/ LoadSettings
    \/ Dispatch
    \/ PrintUsage
    \/ LaunchGradioInterface
    \/ ProcessDirectory
    \/ ProcessVideos
    \/ ProcessDirectoryExcept
    \/ ProcessSingleFile
    \/ ProcessVideo
    \/ ProcessSingleFileExcept
    \/ MainExcept
    \/ Finally

Spec == Init /\ [][Next]_vars

-----------------------------------------------------------------------------
(* Vocabulary of the properties.                                           *)

Ran(step) == \E i \in DOMAIN trace : trace[i] = step
Logged(event) == \E i \in DOMAIN log : log[i].event = event
LoggedFailure(event, e) == \E i \in DOMAIN log : log[i] = LogEntry(event, e, <<>>, <<>>)
CallsTo(fn) == SelectSeq(calls, LAMBDA c : c.fn = fn)
TierLines == SelectSeq(out, LAMBDA l : l.text \in TierMessages)
UsagePrinted == \E i \in DOMAIN out : out[i] = UsageText[1]
HandlerRan == \/ Ran("process_directory_except")
              \/ Ran("process_single_file_except")
              \/ Ran("main_except")
EnvironmentFailed == Logged("Environment validation failed")
SomeFileAbsent == \E i \in DOMAIN RequiredFiles : ~Exists(RequiredFiles[i], fs)
Flags == {GuiFlag, FileFlag}

(* The four invocation shapes of the command-line table.                   *)
ListedShape(a) ==
    \/ Len(a) = 0
    \/ Len(a) > 0 /\ a[1] = GuiFlag
    \/ Len(a) = 2 /\ a[1] \notin Flags /\ a[2] \notin Flags
    \/ Len(a) = 3 /\ a[1] = FileFlag

-----------------------------------------------------------------------------
(* C1 as stated: when the process has terminated, whatever the outcome,    *)
(* cleanup_work_directory has been invoked exactly once.                   *)
C1_CleanupExactlyOnce == pc = "done" => cleanups = 1

(* C1 as amended: when the process has terminated, cleanup has been        *)
(* invoked exactly once if no handler ran (delegate returned, usage help,  *)
(* environment validation failed) and exactly twice if a handler ran (a    *)
(* failure caught in process_directory or process_single_file, or an       *)
(* exception caught by main's handler).                                    *)
C1_CleanupOnceOrTwice ==
    pc = "done" => cleanups = (IF HandlerRan THEN 2 ELSE 1)

C1_Witness ==
    /\ pc = "done"
    /\ cleanups = 2
    /\ Ran("process_directory_except")
    /\ \E i \in DOMAIN calls : calls[i].fn = "process_videos" /\ calls[i].raised

(* C2: when the process has terminated, on every path, cleanup has been    *)
(* invoked at least once.                                                  *)
C2_CleanupAtLeastOnce == pc = "done" => cleanups >= 1

C2_Witness ==
    /\ pc = "done"
    /\ EnvironmentFailed
    /\ exitCode = 1
    /\ cleanups = 1

(* C3 as stated: an invocation that is none of the four listed shapes      *)
(* prints the usage text, calls no delegate and exits with status 0.       *)
C3_OtherShapesSelectUsage ==
    (pc = "done" /\ Ran("dispatch") /\ ~ListedShape(argv)) =>
        /\ Ran("usage")
        /\ UsagePrinted
        /\ calls = <<>>
        /\ ~Ran("process_directory")
        /\ exitCode = 0

(* C4: once dispatch has read the invocation, an empty invocation or one   *)
(* starting with --gui takes the interactive branch and calls no           *)
(* processor; two non-flag arguments enter process_directory with exactly  *)
(* those two; --file p1 p2 enters process_single_file with exactly p1, p2. *)
C4_ModePrecedence ==
    Ran("dispatch") =>
        /\ (Len(argv) = 0 \/ (Len(argv) > 0 /\ argv[1] = GuiFlag)) =>
              /\ pc = "launch_gradio_interface" \/ Ran("launch_gradio_interface")
              /\ ~Ran("process_directory") /\ ~Ran("process_single_file")
              /\ pc \notin {"process_directory", "process_single_file", "usage"}
              /\ CallsTo("process_videos") = <<>>
              /\ CallsTo("process_video") = <<>>
              /\ pc = "done" => Len(CallsTo("launch_gradio_interface")) = 1
        /\ (Len(argv) = 2 /\ argv[1] \notin Flags /\ argv[2] \notin Flags) =>
              /\ pc = "process_directory" \/ Ran("process_directory")
              /\ input_path = argv[1] /\ output_path = argv[2]
              /\ \A i \in DOMAIN calls :
                    calls[i].fn = "process_videos" /\ calls[i].a = argv[1]
                                                   /\ calls[i].b = argv[2]
        /\ (Len(argv) = 3 /\ argv[1] = FileFlag) =>
              /\ pc = "process_single_file" \/ Ran("process_single_file")
              /\ input_path = argv[2] /\ output_path = argv[3]
              /\ \A i \in DOMAIN calls :
                    calls[i].fn = "process_video" /\ calls[i].a = argv[2]
                                                  /\ calls[i].b = argv[3]

C4_Witness ==
    /\ pc = "done"
    /\ Len(argv) = 3
    /\ argv[1] = GuiFlag
    /\ Len(CallsTo("launch_gradio_interface")) = 1

(* C5 as stated: in a single-file run whose input file exists, the parent  *)
(* directory of the output path exists when process_video is called, and   *)
(* process_video is called exactly once, with the two paths of the command *)
(* line.                                                                   *)
C5_SingleFileCallsProcessVideo ==
    /\ pc = "process_video" => Exists(Dirname(output_path), fs)
    /\ (pc = "done" /\ Ran("process_single_file") /\ Exists(input_path, fs)) =>
          /\ Len(calls) = 1
          /\ calls[1].fn = "process_video"
          /\ calls[1].a = argv[2]
          /\ calls[1].b = argv[3]

(* C6 as stated: when the process has terminated after any delegate        *)
(* raised, the error was logged, cleanup ran and the exit status is 0.     *)
C6_DelegateFailureExitsZero ==
    (pc = "done" /\ \E i \in DOMAIN calls : calls[i].raised) =>
        /\ \E i \in DOMAIN log : log[i].exc.type = "Exception"
        /\ cleanups >= 1
        /\ exitCode = 0

(* C6 as amended: an error raised by process_videos or process_video is    *)
(* caught in the processing method, logged, followed by cleanup, and the   *)
(* exit status is 0; an error raised by launch_gradio_interface is caught  *)
(* by main's handler, logged, followed by cleanup, and the exit status     *)
(* is 1.                                                                   *)
C6_DelegateFailureHandling ==
    pc = "done" =>
        \A i \in DOMAIN calls : calls[i].raised =>
            /\ cleanups >= 1
            /\ calls[i].fn = "process_videos" =>
                  /\ LoggedFailure("Directory processing failed",
                                   Exc("Exception", "process_videos", <<>>))
                  /\ exitCode = 0
            /\ calls[i].fn = "process_video" =>
                  /\ LoggedFailure("Single file processing failed",
                                   Exc("Exception", "process_video", <<>>))
                  /\ exitCode = 0
            /\ calls[i].fn = "launch_gradio_interface" =>
                  /\ LoggedFailure("Program execution failed",
                                   Exc("Exception", "launch_gradio_interface", <<>>))
                  /\ exitCode = 1

C6_Witness ==
    /\ pc = "done"
    /\ Len(calls) = 1
    /\ calls[1].fn = "launch_gradio_interface"
    /\ calls[1].raised
    /\ exitCode = 1

(* C7 as stated: print_hardware_info never fails; whatever keys the        *)
(* mapping has, a missing flag counting as false, it prints exactly one    *)
(* tier message and the run goes on to load the settings and dispatch.     *)
C7_PrintHardwareInfoNeverFails ==
    Ran("print_hardware_info") =>
        /\ Len(TierLines) = 1
        /\ TierLines[1].text =
              (IF HasKey(hardware_config, "OpenCL") /\ Get(hardware_config, "OpenCL")
               THEN "Using OpenCL for GPU acceleration"
               ELSE IF HasKey(hardware_config, "Avx2") /\ Get(hardware_config, "Avx2")
               THEN "Using AVX2 for CPU acceleration"
               ELSE "Using standard CPU processing")
        /\ pc = "load_settings" \/ Ran("load_settings")

(* C8: when the process has terminated, the exit status is 0 after usage   *)
(* help, after a delegate that returned, and after a failure caught in     *)
(* process_directory or process_single_file; it is non-zero exactly when   *)
(* environment validation failed or main's handler ran.                    *)
C8_ExitStatus ==
    pc = "done" =>
        /\ exitCode \in {0, 1}
        /\ Ran("usage") => exitCode = 0
        /\ (calls # <<>> /\ ~calls[Len(calls)].raised) => exitCode = 0
        /\ (Ran("process_directory_except") \/ Ran("process_single_file_except"))
              => exitCode = 0
        /\ exitCode # 0 <=> (EnvironmentFailed \/ Ran("main_except"))

C8_Witness ==
    /\ pc = "done"
    /\ Ran("process_single_file_except")
    /\ \E i \in DOMAIN calls : calls[i].fn = "process_video" /\ calls[i].raised
    /\ exitCode = 0

(* C9: once validate_environment has run with a required file absent, the  *)
(* failure is logged, the exit status is 1, nothing was printed, no        *)
(* delegate was called, neither the hardware report nor dispatch is ever   *)
(* reached, and cleanup has run when the process has terminated.           *)
C9_MissingFileIsFatal ==
    (Ran("validate_environment") /\ SomeFileAbsent) =>
        /\ Logged("Error: Required file missing")
        /\ LoggedFailure("Environment validation failed",
                         Exc("FileNotFoundError", "Required file missing",
                             Head(MissingFiles(fs))))
        /\ exitCode = 1
        /\ pc \in {"finally", "done"}
        /\ ~Ran("print_hardware_info") /\ ~Ran("dispatch")
        /\ out = <<>>
        /\ calls = <<>>
        /\ pc = "done" => cleanups >= 1

C9_Witness ==
    /\ pc = "done"
    /\ Ran("validate_environment")
    /\ Exists(RequiredFiles[1], fs)
    /\ Exists(RequiredFiles[2], fs)
    /\ ~Exists(RequiredFiles[3], fs)
    /\ exitCode = 1
    /\ cleanups = 1

(* C10: once process_directory has run with an input directory that does   *)
(* not exist, process_videos is never called, and the handler logs a       *)
(* directory-processing failure whose error names the input path.          *)
C10_MissingInputDirectory ==
    (Ran("process_directory") /\ ~Exists(input_path, fs)) =>
        /\ pc # "process_videos" /\ ~Ran("process_videos")
        /\ CallsTo("process_videos") = <<>>
        /\ exc = Exc("FileNotFoundError", "Input directory not found", argv[1])
        /\ pc \in {"process_directory_except", "finally", "done"}
        /\ pc # "process_directory_except" =>
              LoggedFailure("Directory processing failed",
                            Exc("FileNotFoundError", "Input directory not found",
                                argv[1]))

C10_Witness ==
    /\ pc = "done"
    /\ argv = << <<"a">>, <<"d", "b">> >>
    /\ ~Exists(<<"a">>, fs)
    /\ ~Exists(<<"d">>, fs)
    /\ CallsTo("process_videos") = <<>>
    /\ Logged("Directory processing failed")

-----------------------------------------------------------------------------
(* C11: the step validate_environment, from any filesystem, leaves every   *)
(* required directory existing, removes nothing that existed, adds nothing *)
(* but required directories, and leaves a filesystem in which its          *)
(* directory loop, run again, creates and logs nothing.                    *)
C11_ValidateCreatesDirsOnly ==
    [][pc = "validate_environment" =>
          /\ \A i \in DOMAIN RequiredDirs : Exists(RequiredDirs[i], fs')
          /\ fs \subseteq fs'
          /\ fs' \ fs \subseteq Range(RequiredDirs)
          /\ CreateDirs(1, [fs |-> fs', log |-> <<>>]) = [fs |-> fs', log |-> <<>>]
      ]_vars

C11_Witness ==
    /\ Ran("validate_environment")
    /\ \E i \in DOMAIN log :
          log[i] = LogEntry("Created missing directory", NoExc, <<"work">>, <<>>)
    /\ \A i \in DOMAIN RequiredDirs : Exists(RequiredDirs[i], fs)
    /\ Exists(<<"data", "temporary.py">>, fs)
    /\ Exists(<<"d", "b">>, fs)

-----------------------------------------------------------------------------
(* The branches of main entered so far, and the modes that have occurred.  *)
Branches == {"launch_gradio_interface", "process_directory",
             "process_single_file", "usage"}
BranchesEntered == {b \in Branches : Ran(b)}
UsageCount == Len(SelectSeq(out, LAMBDA l : l = UsageText[1]))
ModeCounts == << Len(CallsTo("launch_gradio_interface")),
                 Len(CallsTo("process_videos")),
                 Len(CallsTo("process_video")),
                 UsageCount >>
ModesTaken == {i \in DOMAIN ModeCounts : ModeCounts[i] > 0}
AtMostOneMode ==
    /\ \A i \in DOMAIN ModeCounts : ModeCounts[i] <= 1
    /\ Cardinality(ModesTaken) <= 1
    /\ Cardinality(BranchesEntered) <= 1
ReportSucceeded ==
    /\ Ran("validate_environment") /\ ~EnvironmentFailed
    /\ Ran("print_hardware_info") /\ Len(TierLines) = 1

(* C12 as stated: at most one of launch_gradio_interface, process_videos,  *)
(* process_video and the usage text occurs, each at most once; and when    *)
(* the process has terminated after environment validation and the         *)
(* hardware report succeeded, exactly one branch was entered.              *)
C12_ExactlyOneBranchAfterReport ==
    /\ AtMostOneMode
    /\ (pc = "done" /\ ReportSucceeded) => Cardinality(BranchesEntered) = 1

(* C12 as amended: at most one mode occurs, each at most once; and when    *)
(* the process has terminated after environment validation and the         *)
(* hardware report succeeded and the load_settings call of main returned,  *)
(* exactly one branch was entered; when that call raised, none was.        *)
C12_ExactlyOneBranchAfterSettings ==
    /\ AtMostOneMode
    /\ (pc = "done" /\ ReportSucceeded) =>
          Cardinality(BranchesEntered) = (IF Ran("dispatch") THEN 1 ELSE 0)
    /\ (pc = "done" /\ Ran("launch_gradio_interface")) =>
          Len(CallsTo("launch_gradio_interface")) = 1
    /\ (pc = "done" /\ Ran("usage")) => UsageCount = 1

C12_Witness ==
    /\ pc = "done"
    /\ ReportSucceeded
    /\ BranchesEntered = {"usage"}
    /\ UsageCount = 1
    /\ calls = <<>>

-----------------------------------------------------------------------------
(* The mapping as a set of items: what it holds, whatever the key order.   *)
Items(hc) == Range(hc)
BothFlagsPresent(hc) == \A k \in HwKeys : \E it \in Items(hc) : it.key = k

(* C13: once print_hardware_info has run on a mapping holding both flags,  *)
(* exactly one tier message has been printed, after the items: the GPU     *)
(* message if OpenCL is true, else the AVX2 message if Avx2 is true, else  *)
(* the standard message, decided by the items alone, not their order.      *)
C13_TierByPriority ==
    (Ran("print_hardware_info") /\ BothFlagsPresent(hardware_config)) =>
        /\ Len(TierLines) = 1
        /\ out[Len(hardware_config) + 2] = TierLines[1]
        /\ TierLines[1].text =
              (IF [key |-> "OpenCL", value |-> TRUE] \in Items(hardware_config)
               THEN "Using OpenCL for GPU acceleration"
               ELSE IF [key |-> "Avx2", value |-> TRUE] \in Items(hardware_config)
               THEN "Using AVX2 for CPU acceleration"
               ELSE "Using standard CPU processing")

C13_Witness ==
    /\ Ran("print_hardware_info")
    /\ hardware_config = << [key |-> "Avx2", value |-> TRUE],
                            [key |-> "OpenCL", value |-> TRUE] >>
    /\ Len(TierLines) = 1
    /\ TierLines[1].text = "Using OpenCL for GPU acceleration"

-----------------------------------------------------------------------------
(* C14: once cleanup_work_directory has been invoked, no step of the run   *)
(* calls a delegate or creates a directory: the only step left is the      *)
(* finally block, which cleans up again.                                   *)
C14_NothingAfterCleanup ==
    [][cleanups > 0 =>
          /\ calls' = calls
          /\ fs' = fs
          /\ pc = "finally"
          /\ cleanups' = cleanups + 1
      ]_vars

C14_Witness ==
    /\ pc = "done"
    /\ cleanups = 2
    /\ Len(calls) = 1
    /\ calls[1].fn = "process_video"
    /\ calls[1].raised
    /\ trace[Len(trace)] = "finally"
    /\ Exists(<<"d">>, fs)
    /\ \E i \in DOMAIN log : log[i].event = "Processing single file"
                             /\ log[i].b = <<"d", "b">>

-----------------------------------------------------------------------------
(* C15: in a processing branch whose input path does not exist, no step    *)
(* changes the filesystem, from the entry of the method to the end of its  *)
(* handler.                                                                *)
C15_FailedInputCreatesNothing ==
    [][(/\ pc \in {"process_directory", "process_directory_except",
                   "process_single_file", "process_single_file_except"}
        /\ ~Exists(input_path, fs))
          => /\ fs' = fs
             /\ pc' \in {"process_directory_except", "process_single_file_except",
                         "finally"}
      ]_vars

C15_Witness ==
    /\ pc = "finally"
    /\ Ran("process_single_file_except")
    /\ exc = Exc("FileNotFoundError", "Input file not found", <<"a">>)
    /\ output_path = <<"d", "b">>
    /\ ~Exists(<<"d">>, fs)

-----------------------------------------------------------------------------
DelegateCallSites == {"launch_gradio_interface", "process_videos", "process_video"}

(* C16: whenever a delegate is about to be called or has been called,      *)
(* validate_environment has returned normally, the hardware report has     *)
(* been printed, and the four required directories and the three required *)
(* files exist.                                                            *)
C16_DelegateNeedsValidEnvironment ==
    (pc \in DelegateCallSites \/ calls # <<>>) =>
        /\ Ran("validate_environment")
        /\ ~EnvironmentFailed
        /\ exitCode = 0 \/ Ran("main_except")
        /\ Ran("print_hardware_info")
        /\ Len(TierLines) = 1
        /\ \A i \in DOMAIN RequiredDirs : Exists(RequiredDirs[i], fs)
        /\ \A i \in DOMAIN RequiredFiles : Exists(RequiredFiles[i], fs)

C16_Witness ==
    /\ pc = "process_videos"
    /\ calls = <<>>
    /\ Logged("Created missing directory")
    /\ \A i \in DOMAIN RequiredDirs : Exists(RequiredDirs[i], fs)
    /\ \A i \in DOMAIN RequiredFiles : Exists(RequiredFiles[i], fs)

====
